---------------------------- MODULE Spec2Model ----------------------------
(***************************************************************************)
(* The wave field solver of src/services/waveSolver.ts (class WaveSolver)  *)
(* and the two field-clearing handlers of src/App.tsx, as a state machine. *)
(*                                                                         *)
(* Numbers.  The four arrays are Float32Array in the source.  Here every   *)
(* real is a fixed-point integer:                                          *)
(*   - field values (u, uPrev) in units of 1/100;                          *)
(*   - damping factors in units of 1/DampOne;                              *)
(*   - velocityMap holds c*c exactly (every c*c of the catalog is an       *)
(*     integer that a 32-bit float represents exactly);                    *)
(*   - normalized positions in tenths, amplitudes in tenths.               *)
(* A store into a field array rounds to the nearest representable value,   *)
(* as a Float32Array store does; the fixed-point grid stands for the float *)
(* grid.  The stencil rounds once after the Courant product and once after *)
(* the damping product (the source rounds once, at the store).  The field  *)
(* unit is the finest that keeps the fastest material (steel, Courant      *)
(* number 2.98) within TLC's 32-bit integers over the steps explored.      *)
(*                                                                         *)
(* WaveSolver.step (waveSolver.ts:66-110) has no caller and is not         *)
(* modelled; stepOptimized is the step of the simulation.                  *)
(***************************************************************************)
EXTENDS Integers, Sequences, FiniteSets, TLC

VARIABLES
  size,         \* WaveSolver.size
  u,            \* WaveSolver.u            current wave field
  uPrev,        \* WaveSolver.uPrev        previous wave field
  velocityMap,  \* WaveSolver.velocityMap  speed of sound squared
  dampingMap,   \* WaveSolver.dampingMap   damping coefficients
  last,         \* the operation that produced this state: its name, its
                \* arguments, and what it found (see Ran)
  nOps          \* how many operations ran since construction

vars == <<size, u, uPrev, velocityMap, dampingMap, last, nOps>>

---------------------------------------------------------------------------
(* Bounds of the exploration *)

MaxOps == 3

\* grid sizes: a single cell, no interior cell, one interior cell, several
Sizes == {1, 2, 3, 5}

\* operations of a run of the render loop, on air and on the other
\* materials (on steel the field outgrows 32 bits within a few steps)
MaxSteps == 1000
MaxStepsOther == 3

\* sizes the constructor's parameter admits (size: number), the non-positive
\* ones among them
AnySizes == {-2, -1, 0, 1, 2}

---------------------------------------------------------------------------
(* constants.ts, types.ts *)

MaterialType == {"AIR", "WATER", "STEEL", "CUSTOM"}

speedOfSound(m) ==
  CASE m = "AIR"    -> 343
    [] m = "WATER"  -> 1481
    [] m = "STEEL"  -> 5960
    [] m = "CUSTOM" -> 300

\* DX = 0.01 and DT = 0.000005, as their inverses
DXInv == 100
DTInv == 200000

\* CourantRoot for a grid spacing of a tenth of DX: every Courant number
\* ten times as large
CourantRootFineGrid == DTInv \div (10 * DXInv)

\* DX / DT; (DT*DT)/(DX*DX) = 1 / (CourantRoot * CourantRoot)
CourantRoot == DTInv \div DXInv

---------------------------------------------------------------------------
(* Fixed-point units and arithmetic *)

\* the damping factor 1.0
DampOne == 100

Min2(a, b) == IF a <= b THEN a ELSE b
Max2(a, b) == IF a >= b THEN a ELSE b

\* Math.floor(brushSize / 2)
HalfBrush(brushSize) == brushSize \div 2

\* Math.floor(norm * (s - 1)), norm in tenths
NormToCell(norm10, s) == (norm10 * (s - 1)) \div 10

\* Math.sin(2 * Math.PI * k / 12) in units of 1/100, k in 0..11
SinTwelfth == <<0, 50, 87, 100, 87, 50, 0, -50, -87, -100, -87, -50>>

\* sourceFreq in Hz, time in units of 1/12000 s: the phase 2*pi*f*t in
\* twelfths of a turn
Phase12(sourceFreq, time) == ((sourceFreq * time) \div 1000) % 12

\* sourceAmp * Math.sin(2 * Math.PI * sourceFreq * time), sourceAmp in tenths,
\* rounded to the field grid
SourceValue(sourceFreq, sourceAmp, time) ==
  (2 * sourceAmp * SinTwelfth[Phase12(sourceFreq, time) + 1] + 10) \div 20

\* c2 * courrantConst * lap, rounded to the nearest unit.  The product
\* c2 * lap exceeds 32 bits, so both factors are split in base CourantRoot:
\* f = floor(2 * c2 * lap / CourantRoot^2), and the result is floor((f+1)/2).
MulCourant(c2, lap) ==
  LET K  == CourantRoot
      ah == c2 \div K
      al == c2 % K
      bh == (2 * lap) \div K
      bl == (2 * lap) % K
      f  == ah * bh + ((ah * bl + al * bh + ((al * bl) \div K)) \div K)
  IN  (f + 1) \div 2

\* val * damp, damp in units of 1/DampOne, rounded to the nearest unit
MulDamp(val, damp) ==
  LET vh == val \div DampOne
      vl == val % DampOne
  IN  vh * damp + ((2 * vl * damp + DampOne) \div (2 * DampOne))

---------------------------------------------------------------------------
(* Typed arrays *)

Cells(s) == 0 .. (s * s - 1)

\* new Float32Array(n) throws a RangeError for a negative length n
AllocationFails(n) == n < 0

\* new Float32Array(n): all zero
ZeroArray(s) == [i \in Cells(s) |-> 0]

\* arr[idx] = v on a typed array: a store outside the array is ignored
Store(arr, idx, v) ==
  IF idx \in DOMAIN arr THEN [arr EXCEPT ![idx] = v] ELSE arr

---------------------------------------------------------------------------
(* WaveSolver: the material model *)

\* const padding = 10 (applyBoundaries)
padding == 10

\* EdgeDist measured along x alone
EdgeDistX(x, y, s) == Min2(x, s - 1 - x)

\* Distance to closest edge
EdgeDist(x, y, s) == Min2(Min2(x, s - 1 - x), Min2(y, s - 1 - y))

\* DampingFactor with the sign of the gradient turned: a layer that
\* amplifies, 1.0 + 0.1 * ((padding - dist) / padding)
DampingFactorAmplifying(dist) ==
  Max2((8 * DampOne) \div 10,
       DampOne + (((DampOne \div 10) * (padding - dist)) \div padding))

\* Math.max(0.8, 1.0 - 0.1 * ((padding - dist) / padding))
DampingFactor(dist) ==
  Max2((8 * DampOne) \div 10,
       DampOne - (((DampOne \div 10) * (padding - dist)) \div padding))

\* the guard of applyBoundaries: the cell lies in the boundary layer
InLayer(x, y, s) ==
  x < padding \/ x >= s - padding \/ y < padding \/ y >= s - padding

\* applyBoundaries(): the damping map after the two loops, from map dm; the
\* loops visit x and y in 0 .. s - 1, no cell when s < 1
applyBoundaries(s, dm) ==
  [i \in Cells(s) |->
     LET x == i % s
         y == i \div s
     IN  IF s >= 1 /\ InLayer(x, y, s)
           THEN DampingFactor(EdgeDist(x, y, s))
           ELSE dm[i]]

\* PaintedIdx with the bounds check on ny alone: a column off the grid
\* wraps into the neighbouring row
PaintedIdxUnclippedX(x, y, r, s) ==
  { (y + dy) * s + (x + dx) :
      <<dx, dy>> \in { d \in (-r .. r) \X (-r .. r) :
                         y + d[2] >= 0 /\ y + d[2] < s } }

\* the indices updateMaterial writes: idx = ny * size + nx for the (nx, ny)
\* of the brush square that pass the bounds check
PaintedIdx(x, y, r, s) ==
  { (y + dy) * s + (x + dx) :
      <<dx, dy>> \in { d \in (-r .. r) \X (-r .. r) :
                         /\ x + d[1] >= 0 /\ x + d[1] < s
                         /\ y + d[2] >= 0 /\ y + d[2] < s } }

\* updateMaterial blending the material in, velocityMap[idx] += c2, instead
\* of storing it
updateMaterialAdding(vm, s, x, y, material, brushSize) ==
  LET c  == speedOfSound(material)
      c2 == c * c
      P  == PaintedIdx(x, y, HalfBrush(brushSize), s)
  IN  [i \in DOMAIN vm |-> IF i \in P THEN vm[i] + c2 ELSE vm[i]]

\* updateMaterial(x, y, material, brushSize): the velocity map it leaves
updateMaterial(vm, s, x, y, material, brushSize) ==
  LET c  == speedOfSound(material)
      c2 == c * c
      P  == PaintedIdx(x, y, HalfBrush(brushSize), s)
  IN  [i \in DOMAIN vm |-> IF i \in P THEN c2 ELSE vm[i]]

\* ResetVelocity storing the speed where its square belongs
ResetVelocityUnsquared(s, defaultMaterial) ==
  [i \in Cells(s) |-> speedOfSound(defaultMaterial)]

\* resetMaterialMap(defaultMaterial): the first loop's velocity map
ResetVelocity(s, defaultMaterial) ==
  LET c == speedOfSound(defaultMaterial)
  IN  [i \in Cells(s) |-> c * c]

\* resetMaterialMap(defaultMaterial): the damping map, 1.0 everywhere and
\* then applyBoundaries()
ResetDamping(s) == applyBoundaries(s, [i \in Cells(s) |-> DampOne])

---------------------------------------------------------------------------
(* WaveSolver.stepOptimized *)

\* StencilValue over the nine-point stencil: the four diagonal neighbours
\* enter the laplacian as well
StencilValueNinePoint(i, s, cur, prev, vm, dm) ==
  LET lap == cur[i + 1] + cur[i - 1] + cur[i + s] + cur[i - s]
               + cur[i + s + 1] + cur[i + s - 1] + cur[i - s + 1]
               + cur[i - s - 1] - 8 * cur[i]
      val == 2 * cur[i] - prev[i] + MulCourant(vm[i], lap)
  IN  MulDamp(val, dm[i])

\* one interior cell of the sweep: the value stored into uNext[i]
StencilValue(i, s, cur, prev, vm, dm) ==
  LET lap == cur[i + 1] + cur[i - 1] + cur[i + s] + cur[i - s] - 4 * cur[i]
      val == 2 * cur[i] - prev[i] + MulCourant(vm[i], lap)
  IN  MulDamp(val, dm[i])

\* the cells the two loops visit: 1 <= x < s - 1 and 1 <= y < s - 1
Interior(i, s) ==
  /\ s >= 3
  /\ i % s >= 1 /\ i % s < s - 1
  /\ i \div s >= 1 /\ i \div s < s - 1

\* StencilSweep as it would be with the stores going into the buffer the
\* loops read (no separate uNext): cell k of the row-major sweep reads the
\* new values of the cells before it.  The guard on buf evaluates each
\* buffer before the next cell is taken.
RECURSIVE SweepInPlace(_, _, _, _, _, _)
SweepInPlace(k, s, buf, prev, vm, dm) ==
  IF s < 3 \/ k >= (s - 2) * (s - 2) \/ DOMAIN buf # Cells(s)
    THEN buf
    ELSE LET i == (1 + (k \div (s - 2))) * s + 1 + (k % (s - 2))
         IN  SweepInPlace(k + 1, s,
                          [buf EXCEPT ![i] = StencilValue(i, s, buf, prev, vm, dm)],
                          prev, vm, dm)

StencilSweepInPlace(s, cur, prev, vm, dm) ==
  LET done == SweepInPlace(0, s, cur, prev, vm, dm)
  IN  [i \in Cells(s) |-> IF Interior(i, s) THEN done[i] ELSE 0]

\* const uNext = new Float32Array(sizeSq), filled by the two loops: the
\* loops read this.u (cur) and this.uPrev (prev) and store into uNext alone,
\* one store per interior cell
StencilSweep(s, cur, prev, vm, dm) ==
  [i \in Cells(s) |->
     IF Interior(i, s) THEN StencilValue(i, s, cur, prev, vm, dm) ELSE 0]

\* sourceIdx = sy * s + sx
SourceIdx(sourceX, sourceY, s) ==
  NormToCell(sourceY, s) * s + NormToCell(sourceX, s)

\* ApplySource as a soft source: the line the source keeps commented out,
\* u[sourceIdx] += ...
ApplySourceAdditive(cur, idx, sourceFreq, sourceAmp, time) ==
  Store(cur, idx, cur[idx] + SourceValue(sourceFreq, sourceAmp, time))

\* this.u[sourceIdx] = sourceAmp * Math.sin(2 * Math.PI * sourceFreq * time)
ApplySource(cur, idx, sourceFreq, sourceAmp, time) ==
  Store(cur, idx, SourceValue(sourceFreq, sourceAmp, time))

\* CycleBuffers with the two copies in the other order: this.u.set(uNext)
\* before this.uPrev.set(this.u)
CycleBuffersLate(cur, nxt) == <<nxt, nxt>>

\* the buffers after "Cycle buffers": <<this.u, this.uPrev>>
CycleBuffers(cur, nxt) == <<nxt, cur>>

---------------------------------------------------------------------------
(* The inputs the operations are tried with *)

\* updateMaterial(x, y, material, brushSize): one cell, a block, an even
\* brush clipped at a corner, a brush clipped at the right edge, a centre
\* off the grid without and with cells on it, and an erasure
PaintInputs(s) ==
  LET mid == s \div 2
  IN  { <<mid, mid, "STEEL", 1>>,
        <<mid, mid, "WATER", 5>>,
        <<0, 0, "CUSTOM", 2>>,
        <<s - 1, mid, "STEEL", 3>>,
        <<-1, s, "WATER", 1>>,
        <<s, -1, "STEEL", 3>>,
        <<mid, mid, "AIR", 3>> }

\* stepOptimized(sourceFreq, sourceAmp, sourceX, sourceY, time): frequency
\* in Hz, amplitude and normalized position in tenths, time in 1/12000 s
StepInputs ==
  { <<1000, 10, 5, 5, 1>>,
    <<2000, 20, 5, 5, 1>>,
    <<1000, 5, 9, 5, 3>>,
    <<2000, 10, 1, 5, 2>>,
    <<2000, 10, 1, 5, 3>>,
    <<1000, 20, 10, 10, 9>> }

---------------------------------------------------------------------------
(* The state machine *)

\* what is recorded of an operation: again, the operation before it was the
\* same call; painted, it is a step and the operation before it was a paint;
\* old, the value a store replaced; steps, how many steps ran since the
\* fields were last all zero; cell, the source cell of those steps (-1 when
\* there is none, -2 when they drove different cells); hadWave and
\* hadLattice, the fields were not all zero and the velocity map was not
\* uniform when it started
Ran(op, args, old) ==
  [ op         |-> op,
    args       |-> args,
    again      |-> last.op = op /\ last.args = args,
    painted    |-> op = "stepOptimized" /\ last.op = "updateMaterial",
    old        |-> old,
    steps      |-> LET quiet == \A i \in DOMAIN u : u[i] = 0 /\ uPrev[i] = 0
                       k     == IF quiet THEN 0 ELSE last.steps
                   IN  IF op = "stepOptimized" THEN k + 1 ELSE k,
    cell       |-> LET quiet == \A i \in DOMAIN u : u[i] = 0 /\ uPrev[i] = 0
                       c     == IF quiet THEN -1 ELSE last.cell
                       idx   == SourceIdx(args[3], args[4], size)
                   IN  IF op # "stepOptimized" THEN c
                       ELSE IF c = -1 \/ c = idx THEN idx
                       ELSE -2,
    hadWave    |-> \E i \in DOMAIN u : u[i] # 0 \/ uPrev[i] # 0,
    hadLattice |-> \E i \in DOMAIN velocityMap :
                     velocityMap[i] # velocityMap[0] ]

\* DefaultMaterial as the palette's first selection (App.tsx selects STEEL)
DefaultMaterialSteel == "STEEL"

\* the material the constructor initializes with
DefaultMaterial == "AIR"

\* new WaveSolver(s), s one of S: the constructor returns unless an
\* allocation throws
Construct(S) ==
  /\ size \in S
  /\ ~AllocationFails(size * size)
  /\ u = ZeroArray(size)
  /\ uPrev = ZeroArray(size)
  /\ velocityMap = ResetVelocity(size, DefaultMaterial)
  /\ dampingMap = ResetDamping(size)
  /\ last = [ op |-> "new", args |-> <<size>>, again |-> FALSE, painted |-> FALSE,
              old |-> 0, steps |-> 0, cell |-> -1,
              hadWave |-> FALSE, hadLattice |-> FALSE ]
  /\ nOps = 0

Init == Construct(Sizes)

\* the smallest grid with a cell outside the boundary layer
InitLarge == Construct({2 * padding + 1})

\* the constructor called with any size
InitAnySize == Construct(AnySizes)

\* ResetMaterialMap with the second store of its loop aimed at the current
\* field: this.u[i] = 1.0 instead of this.dampingMap[i] = 1.0
ResetMaterialMapIntoField(m) ==
  /\ nOps < MaxOps
  /\ velocityMap' = ResetVelocity(size, m)
  /\ dampingMap' = applyBoundaries(size, dampingMap)
  /\ u' = [i \in DOMAIN u |-> 100]
  /\ last' = Ran("resetMaterialMap", <<m>>, 0)
  /\ nOps' = nOps + 1
  /\ UNCHANGED <<size, uPrev>>

\* solver.resetMaterialMap(m)
ResetMaterialMap(m) ==
  /\ nOps < MaxOps
  /\ velocityMap' = ResetVelocity(size, m)
  /\ dampingMap' = ResetDamping(size)
  /\ last' = Ran("resetMaterialMap", <<m>>, 0)
  /\ nOps' = nOps + 1
  /\ UNCHANGED <<size, u, uPrev>>

\* UpdateMaterial restarting the wave under the brush: the painted cells of
\* both fields are zeroed
UpdateMaterialClearing(x, y, m, brushSize) ==
  /\ nOps < MaxOps
  /\ velocityMap' = updateMaterial(velocityMap, size, x, y, m, brushSize)
  /\ LET P == PaintedIdx(x, y, HalfBrush(brushSize), size)
     IN  /\ u' = [i \in DOMAIN u |-> IF i \in P THEN 0 ELSE u[i]]
         /\ uPrev' = [i \in DOMAIN uPrev |-> IF i \in P THEN 0 ELSE uPrev[i]]
  /\ last' = Ran("updateMaterial", <<x, y, m, brushSize>>, 0)
  /\ nOps' = nOps + 1
  /\ UNCHANGED <<size, dampingMap>>

\* solver.updateMaterial(x, y, m, brushSize)
UpdateMaterial(x, y, m, brushSize) ==
  /\ nOps < MaxOps
  /\ velocityMap' = updateMaterial(velocityMap, size, x, y, m, brushSize)
  /\ last' = Ran("updateMaterial", <<x, y, m, brushSize>>, 0)
  /\ nOps' = nOps + 1
  /\ UNCHANGED <<size, u, uPrev, dampingMap>>

\* StepOptimized with strokes reaching the sweep one step late: right after
\* a paint the sweep reads the map as construction left it, not the painted
\* one
StepOptimizedDeferredPaint(sourceFreq, sourceAmp, sourceX, sourceY, time) ==
  /\ nOps < MaxOps
  /\ LET idx   == SourceIdx(sourceX, sourceY, size)
         uSrc  == ApplySource(u, idx, sourceFreq, sourceAmp, time)
         vmOld == IF last.op = "updateMaterial"
                    THEN ResetVelocity(size, DefaultMaterial)
                    ELSE velocityMap
         uNext == StencilSweep(size, uSrc, uPrev, vmOld, dampingMap)
         bufs  == CycleBuffers(uSrc, uNext)
     IN  /\ u' = bufs[1]
         /\ uPrev' = bufs[2]
         /\ last' = Ran("stepOptimized",
                        <<sourceFreq, sourceAmp, sourceX, sourceY, time>>,
                        IF idx \in DOMAIN u THEN u[idx] ELSE 0)
  /\ nOps' = nOps + 1
  /\ UNCHANGED <<size, velocityMap, dampingMap>>

\* StepOptimized with the sweep's damping written back: each interior cell
\* it visits has its damping factor applied to the damping map as well
StepOptimizedDampingMap(sourceFreq, sourceAmp, sourceX, sourceY, time) ==
  /\ nOps < MaxOps
  /\ LET idx   == SourceIdx(sourceX, sourceY, size)
         uSrc  == ApplySource(u, idx, sourceFreq, sourceAmp, time)
         uNext == StencilSweep(size, uSrc, uPrev, velocityMap, dampingMap)
         bufs  == CycleBuffers(uSrc, uNext)
     IN  /\ u' = bufs[1]
         /\ uPrev' = bufs[2]
         /\ last' = Ran("stepOptimized",
                        <<sourceFreq, sourceAmp, sourceX, sourceY, time>>,
                        IF idx \in DOMAIN u THEN u[idx] ELSE 0)
  /\ dampingMap' = [i \in DOMAIN dampingMap |->
                      IF Interior(i, size)
                        THEN MulDamp(dampingMap[i], dampingMap[i])
                        ELSE dampingMap[i]]
  /\ nOps' = nOps + 1
  /\ UNCHANGED <<size, velocityMap>>

\* the body of stepOptimized: nothing in it checks the material, the
\* Courant number or the size of a value
stepOptimized(sourceFreq, sourceAmp, sourceX, sourceY, time) ==
  /\ LET idx   == SourceIdx(sourceX, sourceY, size)
         uSrc  == ApplySource(u, idx, sourceFreq, sourceAmp, time)
         uNext == StencilSweep(size, uSrc, uPrev, velocityMap, dampingMap)
         bufs  == CycleBuffers(uSrc, uNext)
     IN  /\ u' = bufs[1]
         /\ uPrev' = bufs[2]
         /\ last' = Ran("stepOptimized",
                        <<sourceFreq, sourceAmp, sourceX, sourceY, time>>,
                        IF idx \in DOMAIN u THEN u[idx] ELSE 0)
  /\ nOps' = nOps + 1
  /\ UNCHANGED <<size, velocityMap, dampingMap>>

\* solver.stepOptimized(sourceFreq, sourceAmp, sourceX, sourceY, time)
StepOptimized(sourceFreq, sourceAmp, sourceX, sourceY, time) ==
  /\ nOps < MaxOps
  /\ stepOptimized(sourceFreq, sourceAmp, sourceX, sourceY, time)

\* HandleClearFields doing what handleReset does: the material map goes too
HandleClearFieldsAndMaterial ==
  /\ nOps < MaxOps
  /\ velocityMap' = ResetVelocity(size, "AIR")
  /\ dampingMap' = ResetDamping(size)
  /\ u' = [i \in DOMAIN u |-> 0]
  /\ uPrev' = [i \in DOMAIN uPrev |-> 0]
  /\ last' = Ran("handleClearFields", <<>>, 0)
  /\ nOps' = nOps + 1
  /\ UNCHANGED size

\* handleClearFields of App.tsx
HandleClearFields ==
  /\ nOps < MaxOps
  /\ u' = [i \in DOMAIN u |-> 0]
  /\ uPrev' = [i \in DOMAIN uPrev |-> 0]
  /\ last' = Ran("handleClearFields", <<>>, 0)
  /\ nOps' = nOps + 1
  /\ UNCHANGED <<size, velocityMap, dampingMap>>

\* handleReset of App.tsx
HandleReset ==
  /\ nOps < MaxOps
  /\ velocityMap' = ResetVelocity(size, "AIR")
  /\ dampingMap' = ResetDamping(size)
  /\ u' = [i \in DOMAIN u |-> 0]
  /\ uPrev' = [i \in DOMAIN uPrev |-> 0]
  /\ last' = Ran("handleReset", <<>>, 0)
  /\ nOps' = nOps + 1
  /\ UNCHANGED size

Next ==
  \/ \E m \in MaterialType : ResetMaterialMap(m)
  \/ \E p \in PaintInputs(size) : UpdateMaterial(p[1], p[2], p[3], p[4])
  \/ \E q \in StepInputs : StepOptimized(q[1], q[2], q[3], q[4], q[5])
  \/ HandleClearFields
  \/ HandleReset

Spec == Init /\ [][Next]_vars

SpecLarge == InitLarge /\ [][Next]_vars

SpecAnySize == InitAnySize /\ [][Next]_vars

---------------------------------------------------------------------------
(* A run of the render loop: one source, step after step *)

\* <<frequency Hz, amplitude tenths, x tenths, y tenths>> of the simulation
\* config.  With the time advancing 1/12000 s a step, 1000 Hz and 2000 Hz
\* are sampled twelve and six times a period; 120 Hz is sampled as the
\* application's default source is (2000 Hz at (0.1, 0.5), the time
\* advancing DT a step: a hundred steps a period).  The scheme is linear in
\* the amplitude; at amplitude 100.0 the field unit is 1/10000 of it.
SourceConfigs ==
  { <<1000, 1000, 5, 5>>, <<2000, 1000, 5, 5>>, <<120, 1000, 1, 5>> }

\* the velocity map holds air at every cell
UniformAir == velocityMap = ResetVelocity(size, "AIR")

\* the grid is given one other material before the run starts
SetMaterial(m) ==
  /\ nOps = 0
  /\ ResetMaterialMap(m)

\* one pass of the loop body of renderLoop: timeRef.current += 1 and a step
\* with the config, which stays as it is during a run
RenderLoopStep(c) ==
  /\ nOps < (IF UniformAir THEN MaxSteps ELSE MaxStepsOther)
  /\ last.op = "stepOptimized" =>
       <<last.args[1], last.args[2], last.args[3], last.args[4]>> = c
  /\ stepOptimized(c[1], c[2], c[3], c[4], nOps + 1)

NextRun ==
  \/ \E m \in MaterialType \ {DefaultMaterial} : SetMaterial(m)
  \/ \E c \in SourceConfigs : RenderLoopStep(c)

SpecRun == InitLarge /\ [][NextRun]_vars

---------------------------------------------------------------------------
(* Claims about stepOptimized *)

\* the arguments of the step that produced the next state
StepFreq == last'.args[1]
StepAmp  == last'.args[2]
StepX    == last'.args[3]
StepY    == last'.args[4]
StepTime == last'.args[5]

\* the buffer the sweep of that step read: this.u as it was before the
\* call, with the source cell overwritten
SweptField ==
  LET sx == (StepX * (size - 1)) \div 10
      sy == (StepY * (size - 1)) \div 10
  IN  [i \in DOMAIN u |->
         IF i = sy * size + sx
           THEN SourceValue(StepFreq, StepAmp, StepTime)
           ELSE u[i]]

\* C1: every step leaves, at every interior cell i (1 <= x, y <= size - 2),
\* damping_map[i] * (2*w[i] - field_previous[i] + velocity_map[i] * (dt/dx)^2
\* * (w[i+1] + w[i-1] + w[i+size] + w[i-size] - 4*w[i])) in field_current,
\* where w is the field the sweep started from (the current field before the
\* step with the source cell overwritten): no new value is computed from a
\* neighbour's new value.
C1_StencilFromSweptField ==
  [][ last'.op = "stepOptimized" =>
        LET w == SweptField
        IN  \A x \in 1 .. size - 2, y \in 1 .. size - 2 :
              LET i == y * size + x
                  lap == w[i + 1] + w[i - 1] + w[i + size] + w[i - size]
                           - 4 * w[i]
              IN  u'[i] = MulDamp(2 * w[i] - uPrev[i]
                                    + MulCourant(velocityMap[i], lap),
                                  dampingMap[i]) ]_vars

\* C1 happens: a second step ran over a wave (both time levels in play), and
\* left an interior cell non-zero beside an interior cell it left non-zero in
\* the swept buffer
C1_Witness ==
  /\ last.op = "stepOptimized"
  /\ last.hadWave
  /\ \E x \in 1 .. size - 3, y \in 1 .. size - 2 :
       LET i == y * size + x
       IN  /\ u[i] # 0 /\ u[i + 1] # 0
           /\ uPrev[i] # 0 /\ uPrev[i + 1] # 0

\* C2: after every step the buffers have cycled: field_previous is, at
\* every cell, the field the sweep read (the current field before the step
\* with the source cell overwritten), and field_current is the buffer the
\* sweep filled: the stencil value at every interior cell, zero elsewhere.
C2_BuffersCycle ==
  [][ last'.op = "stepOptimized" =>
        LET w == SweptField
        IN  /\ uPrev' = w
            /\ u' = [i \in DOMAIN u |->
                       IF /\ i % size \in 1 .. size - 2
                          /\ i \div size \in 1 .. size - 2
                         THEN StencilValue(i, size, w, uPrev,
                                           velocityMap, dampingMap)
                         ELSE 0] ]_vars

\* C2 happens: a step ran over a wave and left two different time levels
C2_Witness ==
  /\ last.op = "stepOptimized"
  /\ last.hadWave
  /\ \E i \in DOMAIN u : uPrev[i] # 0 /\ u[i] # 0 /\ u[i] # uPrev[i]

\* C3: in every step the driven cell of the buffer the sweep reads (kept as
\* field_previous by the cycle) holds amplitude * sin(2*pi*frequency*time),
\* whatever the cell held before: the source overwrites and never adds.
C3_HardSource ==
  [][ last'.op = "stepOptimized" =>
        LET sx == (StepX * (size - 1)) \div 10
            sy == (StepY * (size - 1)) \div 10
        IN  uPrev'[sy * size + sx]
              = (2 * StepAmp * SinTwelfth[(((StepFreq * StepTime) \div 1000) % 12) + 1]
                   + 10) \div 20 ]_vars

\* C3 happens: a step drove a cell that held another, non-zero value, with a
\* non-zero source value
C3_Witness ==
  /\ last.op = "stepOptimized"
  /\ last.old # 0
  /\ LET sx == (last.args[3] * (size - 1)) \div 10
         sy == (last.args[4] * (size - 1)) \div 10
     IN  /\ uPrev[sy * size + sx] # 0
         /\ uPrev[sy * size + sx] # last.old

---------------------------------------------------------------------------
(* Claims about updateMaterial (paint) *)

\* the arguments of the paint that produced the next state
PaintX        == last'.args[1]
PaintY        == last'.args[2]
PaintMaterial == last'.args[3]
PaintBrush    == last'.args[4]

Abs(n) == IF n < 0 THEN -n ELSE n

\* cell i lies in the square of half-width floor(brush / 2) around (cx, cy)
InBrush(i, cx, cy, brush, s) ==
  /\ Abs((i % s) - cx) <= brush \div 2
  /\ Abs((i \div s) - cy) <= brush \div 2

\* C4: paint(cx, cy, material, brush) sets velocity_map to the material's
\* sound speed squared at exactly the cells (x, y) of the grid with
\* |x - cx| <= floor(brush/2) and |y - cy| <= floor(brush/2), and writes no
\* other cell; the part of the square off the grid is skipped (the map keeps
\* its cells), and brush = 1 writes the centre cell alone.
C4_PaintExactSquare ==
  [][ last'.op = "updateMaterial" =>
        /\ DOMAIN velocityMap' = DOMAIN velocityMap
        /\ \A i \in DOMAIN velocityMap :
             velocityMap'[i] =
               IF InBrush(i, PaintX, PaintY, PaintBrush, size)
                 THEN speedOfSound(PaintMaterial) * speedOfSound(PaintMaterial)
                 ELSE velocityMap[i]
        /\ PaintBrush = 1 =>
             \A i \in DOMAIN velocityMap :
               i # PaintY * size + PaintX => velocityMap'[i] = velocityMap[i] ]_vars

\* C4 happens: a brush wider than one cell, centred on the right edge, left
\* its material on the edge and another material in the first column of the
\* rows it covers
C4_Witness ==
  /\ last.op = "updateMaterial"
  /\ size >= 5
  /\ last.args[1] = size - 1
  /\ last.args[4] >= 2
  /\ LET c2 == speedOfSound(last.args[3]) * speedOfSound(last.args[3])
         y  == last.args[2]
     IN  /\ velocityMap[y * size + size - 1] = c2
         /\ velocityMap[(y + 1) * size] # c2
         /\ velocityMap[y * size] # c2

\* C5: paint leaves field_current, field_previous and damping_map as they
\* were, at every cell.
C5_PaintKeepsFields ==
  [][ last'.op = "updateMaterial" =>
        /\ u' = u
        /\ uPrev' = uPrev
        /\ dampingMap' = dampingMap ]_vars

\* C5 happens: a paint wrote cells of a grid that carried a wave, and the
\* wave is still there under the brush
C5_Witness ==
  /\ last.op = "updateMaterial"
  /\ last.hadWave
  /\ \E i \in DOMAIN u :
       /\ Abs((i % size) - last.args[1]) <= last.args[4] \div 2
       /\ Abs((i \div size) - last.args[2]) <= last.args[4] \div 2
       /\ u[i] # 0

\* C6: paint is idempotent: the same paint applied a second time in a row
\* leaves every array as the first application left it.
C6_PaintIdempotent ==
  [][ last'.op = "updateMaterial" /\ last'.again =>
        /\ velocityMap' = velocityMap
        /\ u' = u
        /\ uPrev' = uPrev
        /\ dampingMap' = dampingMap ]_vars

\* C6 happens: the same paint ran twice in a row, and it is one that wrote
\* cells of a material other than the one around them
C6_Witness ==
  /\ last.op = "updateMaterial"
  /\ last.again
  /\ \E i, j \in DOMAIN velocityMap :
       /\ velocityMap[i] = speedOfSound(last.args[3]) * speedOfSound(last.args[3])
       /\ velocityMap[j] # velocityMap[i]

---------------------------------------------------------------------------
(* Claims about resetMaterialMap, the field clear and the constructor *)

\* the distance of cell i to the nearest edge of the grid
DistToEdge(i) ==
  LET x == i % size
      y == i \div size
  IN  Min2(Min2(x, y), Min2(size - 1 - x, size - 1 - y))

\* C7: right after reset_material(m), for every catalog material m, the
\* velocity map holds m's sound speed squared at every cell of the grid,
\* whatever had been painted.
C7_ResetVelocityUniform ==
  last.op = "resetMaterialMap" =>
    /\ last.args[1] \in MaterialType
    /\ DOMAIN velocityMap = 0 .. (size * size - 1)
    /\ \A i \in 0 .. (size * size - 1) :
         velocityMap[i] = speedOfSound(last.args[1]) * speedOfSound(last.args[1])

\* C7 happens: a painted map was reset to steel
C7_Witness ==
  /\ last.op = "resetMaterialMap"
  /\ last.hadLattice
  /\ last.args[1] = "STEEL"
  /\ velocityMap[0] = 35521600

\* C8: after reset_material and after construction, with d the distance of
\* a cell to its nearest edge and P the padding (10): the damping factor is
\* 1.0 where d >= P and max(0.8, 1.0 - 0.1 * (P - d) / P) where d < P; so it
\* is below 1.0 inside the layer, never below 0.8, and non-decreasing in d.
\* (Factors are in units of 1/DampOne; the equation is multiplied by 10 * P.)
C8_BoundaryProfile ==
  last.op \in {"new", "resetMaterialMap", "handleReset"} =>
    LET P == padding
        profile == { <<DistToEdge(i), dampingMap[i]>> : i \in DOMAIN dampingMap }
    IN  /\ \A i \in DOMAIN dampingMap :
             LET d == DistToEdge(i)
             IN  /\ d >= P => dampingMap[i] = DampOne
                 /\ d < P =>
                      /\ 10 * P * dampingMap[i]
                           = Max2(8 * P * DampOne,
                                  10 * P * DampOne - DampOne * (P - d))
                      /\ dampingMap[i] < DampOne
                 /\ 10 * dampingMap[i] >= 8 * DampOne
        /\ \A p, q \in profile : p[1] <= q[1] => p[2] <= q[2]

\* C8 happens: a reset of a painted grid that has cells outside the layer
\* left 1.0 at the centre and a rising factor from the corner inwards
C8_Witness ==
  /\ last.op = "resetMaterialMap"
  /\ last.hadLattice
  /\ size > 2 * padding
  /\ dampingMap[(size \div 2) * size + (size \div 2)] = DampOne
  /\ dampingMap[0] < dampingMap[size + 1]
  /\ dampingMap[size + 1] < DampOne

\* C9: reset_fields leaves field_current and field_previous zero at every
\* cell and leaves velocity_map and damping_map as they were.
C9_ClearFieldsKeepsLattice ==
  [][ last'.op = "handleClearFields" =>
        /\ u' = [i \in 0 .. (size * size - 1) |-> 0]
        /\ uPrev' = [i \in 0 .. (size * size - 1) |-> 0]
        /\ velocityMap' = velocityMap
        /\ dampingMap' = dampingMap ]_vars

\* C9 happens: fields that carried a wave over a painted lattice were
\* cleared, and the lattice is still there
C9_Witness ==
  /\ last.op = "handleClearFields"
  /\ last.hadWave
  /\ last.hadLattice
  /\ \A i \in DOMAIN u : u[i] = 0 /\ uPrev[i] = 0
  /\ \E i \in DOMAIN velocityMap : velocityMap[i] # velocityMap[0]

\* C10: a newly constructed grid has both fields zero at every cell, Air's
\* sound speed squared (343^2) at every cell of the velocity map, and the
\* boundary-layer profile in the damping map: 1.0 less 0.1 * (P - d) / P
\* within P cells of an edge.
C10_Constructed ==
  last.op = "new" =>
    /\ size = last.args[1]
    /\ \A i \in 0 .. (size * size - 1) :
         /\ u[i] = 0
         /\ uPrev[i] = 0
         /\ velocityMap[i] = 343 * 343
         /\ 10 * padding * dampingMap[i]
              = 10 * padding * DampOne
                  - DampOne * (padding - Min2(DistToEdge(i), padding))

\* C10 happens: the constructed grid is one with cells on both sides of the
\* layer's inner border
C10_Witness ==
  /\ last.op = "new"
  /\ nOps = 0
  /\ size > 2 * padding
  /\ dampingMap[0] < DampOne
  /\ dampingMap[(size \div 2) * size + (size \div 2)] = DampOne
  /\ velocityMap[0] = 117649

---------------------------------------------------------------------------
(* Claims about the constructor's precondition *)

\* C11: constructing a grid with a non-positive size fails: no constructed
\* grid has a size of zero or less (with its empty or left-over arrays).
C11_NonPositiveSizeFails ==
  last.op = "new" => size >= 1

---------------------------------------------------------------------------
(* Claims about every reachable state *)

\* C12: in every reachable state, whatever was constructed, painted, reset,
\* cleared and stepped, every velocity_map value is strictly positive and is
\* the square of the sound speed of some material of the catalog.
C12_VelocityCatalogSquares ==
  \A i \in DOMAIN velocityMap :
    /\ velocityMap[i] > 0
    /\ \E m \in MaterialType :
         velocityMap[i] = speedOfSound(m) * speedOfSound(m)

\* C12 happens: paints over a reset map left three materials side by side
C12_Witness ==
  /\ last.op = "updateMaterial"
  /\ nOps = MaxOps
  /\ \E i, j, k \in DOMAIN velocityMap :
       /\ velocityMap[i] # velocityMap[j]
       /\ velocityMap[j] # velocityMap[k]
       /\ velocityMap[i] # velocityMap[k]

\* C13: in every reachable state of a grid of any size >= 1, the sizes below
\* twice the padding included, every damping_map value is greater than 0 and
\* at most 1.0.
C13_DampingInUnitInterval ==
  size >= 1 =>
    \A i \in DOMAIN dampingMap :
      dampingMap[i] > 0 /\ dampingMap[i] <= DampOne

\* C13 happens: a grid narrower than twice the padding, all of it boundary
\* layer, was painted, stepped and reset, and its corner is damped
C13_Witness ==
  /\ size >= 3
  /\ size < 2 * padding
  /\ last.op = "resetMaterialMap"
  /\ last.hadWave
  /\ last.hadLattice
  /\ dampingMap[0] < DampOne
  /\ dampingMap[0] < dampingMap[size + 1]

---------------------------------------------------------------------------
(* Claims about the order of paints and steps *)

\* C14: a paint that lands before a step takes effect on that very step: at
\* every interior cell the paint wrote, the step stores the stencil value
\* computed with the painted material's sound speed squared.
C14_PaintSeenByNextStep ==
  [][ last.op = "updateMaterial" /\ last'.op = "stepOptimized" =>
        LET w  == SweptField
            c2 == speedOfSound(last.args[3]) * speedOfSound(last.args[3])
        IN  \A x \in 1 .. size - 2, y \in 1 .. size - 2 :
              LET i   == y * size + x
                  lap == w[i + 1] + w[i - 1] + w[i + size] + w[i - size]
                           - 4 * w[i]
              IN  InBrush(i, last.args[1], last.args[2], last.args[4], size) =>
                    u'[i] = MulDamp(2 * w[i] - uPrev[i] + MulCourant(c2, lap),
                                    dampingMap[i]) ]_vars

\* C14 happens: a step, then a paint, then a step over the wave the first
\* step left; an interior cell holds another material than air (the map of
\* the first step) and the field the last step swept (kept as
\* field_previous) has a laplacian there that the two materials scale
\* differently
C14_Witness ==
  /\ last.op = "stepOptimized"
  /\ last.painted
  /\ last.hadWave
  /\ nOps = 3
  /\ \E x \in 1 .. size - 2, y \in 1 .. size - 2 :
       LET i   == y * size + x
           lap == uPrev[i + 1] + uPrev[i - 1] + uPrev[i + size]
                    + uPrev[i - size] - 4 * uPrev[i]
       IN  /\ velocityMap[i] # 343 * 343
           /\ MulCourant(velocityMap[i], lap) # MulCourant(343 * 343, lap)

---------------------------------------------------------------------------
(* Claims about the source cell *)

\* C15: the cell a step overwrites with the source value is a cell of the
\* grid and the one nearest the normalized position: with the position
\* scaled to cell coordinates, x_norm * (size - 1) and y_norm * (size - 1),
\* the cell lies within half a cell of it along both axes, and the field
\* the sweep read (kept as field_previous) is the current field with that
\* one cell overwritten.  (Positions are in tenths, so distances along an
\* axis are in tenths of a cell.)
C15_SourceAtNearestCell ==
  [][ last'.op = "stepOptimized" =>
        \E cx \in 0 .. size - 1, cy \in 0 .. size - 1 :
          /\ Abs(10 * cx - StepX * (size - 1)) <= 5
          /\ Abs(10 * cy - StepY * (size - 1)) <= 5
          /\ uPrev' = [u EXCEPT ![cy * size + cx] =
                         SourceValue(StepFreq, StepAmp, StepTime)] ]_vars

---------------------------------------------------------------------------
(* Claims about the outermost ring and the quiescent state *)

\* cell i lies on the outermost ring of the grid
OnRing(i) ==
  \/ i % size = 0 \/ i % size = size - 1
  \/ i \div size = 0 \/ i \div size = size - 1

\* C16: a step's sweep leaves the cells of the outermost ring as they were
\* allocated (zero in the buffer that becomes field_current), and no step
\* and no paint changes field_previous at a cell of the ring, wherever in
\* [0,1]x[0,1] the source lies: the ring of field_previous keeps its
\* initial value until reset_fields.
C16_RingUntouched ==
  [][ last'.op \in {"stepOptimized", "updateMaterial"} =>
        \A i \in DOMAIN uPrev :
          OnRing(i) =>
            /\ uPrev'[i] = uPrev[i]
            /\ last'.op = "stepOptimized" => u'[i] = 0 ]_vars

\* the source cell of the step that produced this state
LastSourceIdx ==
  ((last.args[4] * (size - 1)) \div 10) * size
    + ((last.args[3] * (size - 1)) \div 10)

\* C17: from all-zero fields on a uniform-air grid with the source mapped to
\* an interior cell: before any step every field value is zero, and after
\* exactly one step every cell of field_current and field_previous other
\* than the source cell and its four neighbours (left, right, above, below)
\* is zero.
C17_FirstStepReachesNeighbours ==
  /\ nOps = 0 => \A i \in DOMAIN u : u[i] = 0 /\ uPrev[i] = 0
  /\ ( /\ last.op = "stepOptimized"
       /\ ~last.hadWave
       /\ \A i \in DOMAIN velocityMap : velocityMap[i] = 343 * 343
       /\ ~OnRing(LastSourceIdx) )
     => \A i \in DOMAIN u :
          i \notin { LastSourceIdx, LastSourceIdx - 1, LastSourceIdx + 1,
                     LastSourceIdx - size, LastSourceIdx + size }
            => u[i] = 0 /\ uPrev[i] = 0

\* C17 happens: one step from the constructed grid drove an interior cell
\* that has interior neighbours, and left the source value in
\* field_previous and a wave in field_current at the cell and beside it
C17_Witness ==
  /\ last.op = "stepOptimized"
  /\ nOps = 1
  /\ size >= 5
  /\ ~OnRing(LastSourceIdx)
  /\ uPrev[LastSourceIdx] # 0
  /\ u[LastSourceIdx] # 0
  /\ u[LastSourceIdx + 1] # 0
  /\ u[LastSourceIdx - size] # 0
  /\ \A i \in DOMAIN velocityMap : velocityMap[i] = 343 * 343

\* C19: the fields leave the all-zero state only through a step: a paint, a
\* reset_material, a reset_fields or a full reset that starts with
\* field_current and field_previous all zero ends with both all zero; so a
\* state with a non-zero field value was produced by a step or by an
\* operation that found a non-zero value left since an earlier step.
C19_QuiescentUntilStep ==
  [][ /\ last'.op # "stepOptimized"
      /\ \A i \in DOMAIN u : u[i] = 0 /\ uPrev[i] = 0
      => /\ \A i \in DOMAIN u' : u'[i] = 0
         /\ \A i \in DOMAIN uPrev' : uPrev'[i] = 0 ]_vars

\* C19 happens: a reset_material to another material than air found a
\* painted lattice and all-zero fields, and the fields are still all zero
C19_Witness ==
  /\ nOps = 3
  /\ last.op = "resetMaterialMap"
  /\ last.hadLattice
  /\ last.args[1] # "AIR"
  /\ ~last.hadWave
  /\ \A i \in DOMAIN u : u[i] = 0 /\ uPrev[i] = 0

\* C20: a step leaves velocity_map and damping_map as they were, whatever
\* its source parameters and time; an operation that changes either is a
\* paint or a reset of the material map.
C20_StepKeepsMaterialModel ==
  [][ /\ last'.op = "stepOptimized" =>
           velocityMap' = velocityMap /\ dampingMap' = dampingMap
      /\ velocityMap' # velocityMap \/ dampingMap' # dampingMap =>
           last'.op \in {"updateMaterial", "resetMaterialMap", "handleReset"}
    ]_vars

\* C20 happens: a step ran over a wave on a painted lattice, and the lattice
\* and a damped interior cell are still there
C20_Witness ==
  /\ last.op = "stepOptimized"
  /\ last.hadWave
  /\ last.hadLattice
  /\ size >= 3
  /\ \E i \in DOMAIN velocityMap : velocityMap[i] # velocityMap[0]
  /\ dampingMap[size + 1] < DampOne
  /\ \E i \in DOMAIN u : u[i] # 0

---------------------------------------------------------------------------
(* Claims about numerical stability *)

\* C18: with dx = 0.01 and dt = 5e-6 on a uniform air grid, a run of 1000
\* steps from all-zero fields with a sinusoidal source of fixed amplitude
\* keeps the field bounded: no value of either field exceeds twice the
\* amplitude.  And the step checks and clamps nothing, whatever the
\* material: at every interior cell it stores the stencil value as
\* computed.  (Amplitudes are in tenths, field values in hundredths.)
C18_AirBoundedNothingClamped ==
  [][ last'.op = "stepOptimized" =>
        /\ UniformAir =>
             \A i \in DOMAIN u :
               /\ Abs(u'[i]) <= 2 * 10 * StepAmp
               /\ Abs(uPrev'[i]) <= 2 * 10 * StepAmp
        /\ \A x \in 1 .. size - 2, y \in 1 .. size - 2 :
             u'[y * size + x]
               = StencilValue(y * size + x, size, uPrev', uPrev,
                              velocityMap, dampingMap) ]_vars

\* C18 happens: the last step of a run on air left a wave that has spread
\* from the centre deep into the boundary layer and that exceeds the
\* source's amplitude somewhere
C18_Witness ==
  /\ last.op = "stepOptimized"
  /\ nOps = MaxSteps
  /\ UniformAir
  /\ size > 2 * padding
  /\ \E i \in DOMAIN u : DistToEdge(i) <= 3 /\ u[i] # 0
  /\ \E i \in DOMAIN u : Abs(u[i]) > 10 * last.args[2]

---------------------------------------------------------------------------
(* Claims about the speed of propagation *)

\* the Manhattan distance between cells i and j of the grid
Manhattan(i, j) ==
  Abs((i % size) - (j % size)) + Abs((i \div size) - (j \div size))

\* C21: disturbances spread at most one cell per step.  Starting from
\* all-zero fields with a fixed source cell, after k >= 0 steps, with any
\* paints or material resets interleaved, every cell whose Manhattan
\* distance to the source cell exceeds k is zero in field_current and in
\* field_previous; before the first of those steps both fields are zero
\* everywhere.  (last.steps is k and last.cell the source cell.)
C21_SpreadOneCellPerStep ==
  /\ last.steps = 0 => \A i \in DOMAIN u : u[i] = 0 /\ uPrev[i] = 0
  /\ last.steps >= 1 /\ last.cell >= 0 =>
       \A i \in DOMAIN u :
         Manhattan(i, last.cell) > last.steps => u[i] = 0 /\ uPrev[i] = 0

\* C21 happens: two steps drove the same source cell from all-zero fields
\* with a paint between them, the wave has reached a cell at Manhattan
\* distance exactly 2 from the source cell, and cells farther away exist
C21_Witness ==
  /\ last.op = "stepOptimized"
  /\ last.painted
  /\ last.steps = 2
  /\ last.cell >= 0
  /\ \E i \in DOMAIN u : Manhattan(i, last.cell) = 2 /\ u[i] # 0
  /\ \E i \in DOMAIN u : Manhattan(i, last.cell) > 2

============================================================================
